---- MODULE Spec2Model ----
(***************************************************************************)
(* Verification model of the conntracct event pipeline.                    *)
(*                                                                         *)
(*  - the InfluxDB batching sink: Push, tickWorker and sendWorker sharing  *)
(*    the active batch, the batch mutex and the send channel;              *)
(*  - the accounting probe's per-flow sampling (startup burst, cooldown,   *)
(*    destroy) as the integration tests observe it;                        *)
(*  - the probe's fan-out of events to registered consumers.               *)
(***************************************************************************)
EXTENDS Integers, Sequences, FiniteSets, TLC

\* ------------------------------------------------------------------------
\* Bounds of the model
\* ------------------------------------------------------------------------
\* number of events pushed into the sink
MaxPoints == 5
\* capacity of the sink's send channel
SendChanCap == 2
\* packets of the flow under observation
MaxPkts == 34
\* last instant of the flow's clock, in milliseconds
MaxTime == 40
\* packets the client sent that the echo server has not answered
MaxUnanswered == 2
\* events the producer hands to the probe's fan-out
MaxEvents == 3
\* capacity of the channel a consumer registers with
ConsumerChanCap == 2
\* events the kernel has emitted that userspace has not read yet
MaxInFlight == 2
\* calls of Push on the Dummy sink
MaxDummyPushes == 8

\* ------------------------------------------------------------------------
\* Program constants
\* ------------------------------------------------------------------------
\* AcctConfig.CooldownMillis of the probe under test
cd == 20

\* ------------------------------------------------------------------------
\* State
\* ------------------------------------------------------------------------
VARIABLES
  batch,      \* s.batch: the points of the active batch
  batchMu,    \* s.batchMu: "free", or the holder "push" / "tick"
  sendChan,   \* s.sendChan: batches handed off, not yet received
  stats,      \* s.stats: eventsPushed, batchesSent, batchesDropped
  tickPc,     \* position of tickWorker
  tickLen,    \* tickWorker: the len(s.batch.Points()) it evaluated
  sendPc,     \* position of sendWorker
  sendB,      \* sendWorker's local b
  pushPc,     \* position of the caller of Push
  pushE,      \* the point Push is appending
  nextId,     \* identity of the next event handed to Push
  handed,     \* history: batches in the order tickWorker sent them
  written     \* history: completed client.Write calls, [b, ok]

sinkVars == <<batch, batchMu, sendChan, stats, tickPc, tickLen, sendPc,
              sendB, pushPc, pushE, nextId, handed, written>>

VARIABLES
  flowAlive,  \* the flow is tracked (not yet torn down)
  pktsOrig,   \* the flow's packet counter, originating direction
  pktsRet,    \* the flow's packet counter, reply direction
  now,        \* the clock, in milliseconds
  lastUpdate, \* instant of the flow's previous Update
  events      \* history: the events the probe emitted for the flow

flowVars == <<flowAlive, pktsOrig, pktsRet, now, lastUpdate, events>>

\* the names consumers register under
Consumers == {"c1", "c2"}

VARIABLES
  probeState, \* the probe's lifecycle: "stopped", "running", "stopping"
  registry,   \* the names of the probe's registered consumers
  consumerMu, \* the registry lock: "free", or "rlock" held by the fan-out
  chan,       \* each consumer's channel: events sent, not yet read
  closed,     \* each consumer's channel was closed
  lost,       \* each consumer's drop counter
  kernelBuf,  \* events the kernel emitted that userspace has not read yet
  emitted,    \* number of events the kernel has emitted for the flow
  payload,    \* per event read by userspace, its rank in emission order
  rawEvents,  \* the producer's channel: events not yet fanned out
  produced,   \* number of events userspace has read from the kernel
  fanPc,      \* position of the fan-out loop
  fanEv,      \* the event the fan-out loop is distributing
  fanTodo,    \* consumers the event is still to be sent to
  lastCall,   \* the last API call that returned: [op, c, err]
  snapCount,  \* history: events the fan-out loop has started to distribute
  regAt,      \* history: snapCount when the consumer registered
  recvd       \* history: the events each consumer's reader has read

probeVars == <<probeState, registry, consumerMu, chan, closed, lost,
               kernelBuf, emitted, payload, rawEvents, produced, fanPc,
               fanEv, fanTodo, lastCall, snapCount, regAt, recvd>>

VARIABLES
  dInit,      \* Dummy.init
  dConfig,    \* Dummy.config: the name Init was given, "" before Init
  dStats,     \* Dummy.stats
  dPushes,    \* history: number of calls of Dummy.Push
  dRead       \* the results of the last call of Dummy.Stats, <<>> before

dummyVars == <<dInit, dConfig, dStats, dPushes, dRead>>

vars == <<sinkVars, flowVars, probeVars, dummyVars>>

\* ------------------------------------------------------------------------
\* Helpers
\* ------------------------------------------------------------------------
Range(s) == {s[i] : i \in 1..Len(s)}

Last(s) == s[Len(s)]

\* a counter that is not advanced
NoCount(st) == st

\* SinkStats increments
IncrEventsPushed(st) == [st EXCEPT !.eventsPushed = @ + 1]

IncrBatchSent(st) == [st EXCEPT !.batchesSent = @ + 1]

IncrBatchDropped(st) == [st EXCEPT !.batchesDropped = @ + 1]

\* s.newBatch(): the active batch becomes a new, empty batch
newBatch == <<>>

\* ------------------------------------------------------------------------
\* InfluxSink
\* ------------------------------------------------------------------------
SinkInit ==
  /\ batch = newBatch
  /\ batchMu = "free"
  /\ sendChan = <<>>
  /\ stats = [eventsPushed |-> 0, batchesSent |-> 0, batchesDropped |-> 0]
  /\ tickPc = "wait"
  /\ tickLen = 0
  /\ sendPc = "recv"
  /\ sendB = <<>>
  /\ pushPc = "idle"
  /\ pushE = 0
  /\ nextId = 1
  /\ handed = <<>>
  /\ written = <<>>

\* Push(e) is called: the caller goes for the batch lock
PushCall ==
  /\ pushPc = "idle"
  /\ nextId <= MaxPoints
  /\ pushE' = nextId
  /\ nextId' = nextId + 1
  /\ pushPc' = "lock"
  /\ UNCHANGED <<batch, batchMu, sendChan, stats, tickPc, tickLen, sendPc, sendB,
                 handed, written>>
  /\ UNCHANGED <<flowVars, probeVars, dummyVars>>

\* Push: s.batchMu.Lock()
PushLock ==
  /\ pushPc = "lock"
  /\ batchMu = "free"
  /\ batchMu' = "push"
  /\ pushPc' = "append"
  /\ UNCHANGED <<batch, sendChan, stats, tickPc, tickLen, sendPc, sendB, pushE,
                 nextId, handed, written>>
  /\ UNCHANGED <<flowVars, probeVars, dummyVars>>

\* Push: add the point to the batch, unlock, count the event
PushAppend ==
  /\ pushPc = "append"
  /\ batch' = Append(batch, pushE)
  /\ batchMu' = "free"
  /\ stats' = IncrEventsPushed(stats)
  /\ pushPc' = "idle"
  /\ UNCHANGED <<sendChan, tickPc, tickLen, sendPc, sendB, pushE, nextId, handed,
                 written>>
  /\ UNCHANGED <<flowVars, probeVars, dummyVars>>

\* tickWorker: <-t.C
TickFire ==
  /\ tickPc = "wait"
  /\ tickPc' = "lock"
  /\ UNCHANGED <<tickLen, batch, batchMu, sendChan, stats, sendPc, sendB, pushPc,
                 pushE, nextId, handed, written>>
  /\ UNCHANGED <<flowVars, probeVars, dummyVars>>

\* tickWorker: s.batchMu.Lock()
TickLock ==
  /\ tickPc = "lock"
  /\ batchMu = "free"
  /\ batchMu' = "tick"
  /\ tickPc' = "check"
  /\ UNCHANGED <<tickLen, batch, sendChan, stats, sendPc, sendB, pushPc, pushE,
                 nextId, handed, written>>
  /\ UNCHANGED <<flowVars, probeVars, dummyVars>>

\* a tickWorker that flushes without looking at the length
TickBranchAlways(n) == "send"

\* the branch the tickWorker takes on the length of the batch it finds
TickBranch(n) == IF n # 0 THEN "send" ELSE "unlock"

\* tickWorker: if len(s.batch.Points()) != 0
TickCheck ==
  /\ tickPc = "check"
  /\ tickLen' = Len(batch)
  /\ tickPc' = TickBranch(Len(batch))
  /\ UNCHANGED <<batch, batchMu, sendChan, stats, sendPc, sendB, pushPc,
                 pushE, nextId, handed, written>>
  /\ UNCHANGED <<flowVars, probeVars, dummyVars>>

\* a tickWorker that gives up the batch lock with the hand-off, before the
\* new batch is in place
TickSendUnlocked ==
  /\ tickPc = "send"
  /\ Len(sendChan) < SendChanCap
  /\ sendChan' = Append(sendChan, batch)
  /\ handed' = Append(handed, batch)
  /\ batchMu' = "free"
  /\ tickPc' = "newbatch"
  /\ UNCHANGED <<tickLen, batch, stats, sendPc, sendB, pushPc, pushE,
                 nextId, written>>
  /\ UNCHANGED <<flowVars, probeVars, dummyVars>>

\* tickWorker: s.sendChan <- s.batch, blocks while the channel is full
TickSend ==
  /\ tickPc = "send"
  /\ Len(sendChan) < SendChanCap
  /\ sendChan' = Append(sendChan, batch)
  /\ handed' = Append(handed, batch)
  /\ tickPc' = "newbatch"
  /\ UNCHANGED <<tickLen, batch, batchMu, stats, sendPc, sendB, pushPc, pushE,
                 nextId, written>>
  /\ UNCHANGED <<flowVars, probeVars, dummyVars>>

\* tickWorker: s.newBatch()
TickNewBatch ==
  /\ tickPc = "newbatch"
  /\ batch' = newBatch
  /\ tickPc' = "unlock"
  /\ UNCHANGED <<tickLen, batchMu, sendChan, stats, sendPc, sendB, pushPc, pushE,
                 nextId, handed, written>>
  /\ UNCHANGED <<flowVars, probeVars, dummyVars>>

\* tickWorker: s.batchMu.Unlock()
TickUnlock ==
  /\ tickPc = "unlock"
  /\ batchMu' = "free"
  /\ tickPc' = "wait"
  /\ UNCHANGED <<tickLen, batch, sendChan, stats, sendPc, sendB, pushPc, pushE,
                 nextId, handed, written>>
  /\ UNCHANGED <<flowVars, probeVars, dummyVars>>

\* a receive that takes the newest batch of the channel
RecvNewest(ch) == ch[Len(ch)]

\* the batch sendWorker receives from the channel
RecvBatch(ch) == Head(ch)

\* the channel after sendWorker's receive
RecvRest(ch) == Tail(ch)

\* sendWorker: b := <-s.sendChan, then s.client.Write(b) is in progress
SendRecv ==
  /\ sendPc = "recv"
  /\ sendChan # <<>>
  /\ sendB' = RecvBatch(sendChan)
  /\ sendChan' = RecvRest(sendChan)
  /\ sendPc' = "write"
  /\ UNCHANGED <<batch, batchMu, stats, tickPc, tickLen, pushPc, pushE, nextId,
                 handed, written>>
  /\ UNCHANGED <<flowVars, probeVars, dummyVars>>

\* the counters after a Write that returned err # nil
AccountFailure(st) == IncrBatchDropped(st)

\* a sendWorker that puts the failed batch back for a retry
RequeueAfterFailure(ch, b) == Append(ch, b)

\* the channel after a Write that returned err # nil: the batch is gone
AfterFailure(ch, b) == ch

\* a sendWorker that returns on a failed Write
ReturnAfterFailure == "exit"

\* where sendWorker goes after a failed Write: continue, the next receive
AfterFailurePc == "recv"

\* sendWorker: Write returned an error; count the drop, continue
WriteFail ==
  /\ sendPc = "write"
  /\ written' = Append(written, [b |-> sendB, ok |-> FALSE])
  /\ stats' = AccountFailure(stats)
  /\ sendChan' = AfterFailure(sendChan, sendB)
  /\ sendPc' = AfterFailurePc
  /\ UNCHANGED <<batch, batchMu, tickPc, tickLen, sendB, pushPc, pushE, nextId,
                 handed>>
  /\ UNCHANGED <<flowVars, probeVars, dummyVars>>

\* sendWorker: Write returned nil; count the batch as sent
WriteOk ==
  /\ sendPc = "write"
  /\ written' = Append(written, [b |-> sendB, ok |-> TRUE])
  /\ stats' = IncrBatchSent(stats)
  /\ sendPc' = "recv"
  /\ UNCHANGED <<batch, batchMu, sendChan, tickPc, tickLen, sendB, pushPc, pushE,
                 nextId, handed>>
  /\ UNCHANGED <<flowVars, probeVars, dummyVars>>

SinkNext ==
  \/ PushCall
  \/ PushLock
  \/ PushAppend
  \/ TickFire
  \/ TickLock
  \/ TickCheck
  \/ TickSend
  \/ TickNewBatch
  \/ TickUnlock
  \/ SendRecv
  \/ WriteFail
  \/ WriteOk

\* ------------------------------------------------------------------------
\* Accounting probe: per-flow sampling
\* ------------------------------------------------------------------------
FlowInit ==
  /\ flowAlive = TRUE
  /\ pktsOrig = 0
  /\ pktsRet = 0
  /\ now = 0
  /\ lastUpdate = 0
  /\ events = <<>>

\* the startup burst the spec describes
SpecBurstCounts == {1, 2, 4, 8, 16, 32}

\* the packets of a flow's startup burst that are logged
BurstCounts == {1, 2, 8, 32}

\* a cooldown that is still closed when exactly the interval has elapsed
CooldownLate(elapsed) == elapsed > cd

\* the flow's cooldown has expired: elapsed is the time since its last Update
CooldownExpired(elapsed) == elapsed >= cd

\* a probe that reports every packet
SampleAlways(total, elapsed) == TRUE

\* the probe's decision to emit an Update for the packet that makes the
\* flow's cumulative count total
ShouldSample(total, elapsed) ==
  total \in BurstCounts \/ CooldownExpired(elapsed)

AcctEvent(kind, orig, ret) ==
  [kind |-> kind, PacketsOrig |-> orig, PacketsRet |-> ret]

\* a packet of the flow passes the probe: dir is "orig" (the client's
\* packet) or "ret" (the echo server's reply to a packet it received)
Packet(dir) ==
  /\ flowAlive
  /\ pktsOrig + pktsRet < MaxPkts
  /\ dir = "ret" => pktsRet < pktsOrig
  /\ dir = "orig" => pktsOrig - pktsRet < MaxUnanswered
  /\ LET orig == IF dir = "orig" THEN pktsOrig + 1 ELSE pktsOrig
         ret == IF dir = "ret" THEN pktsRet + 1 ELSE pktsRet
     IN /\ pktsOrig' = orig
        /\ pktsRet' = ret
        /\ IF ShouldSample(orig + ret, now - lastUpdate)
             THEN /\ events' = Append(events, AcctEvent("Update", orig, ret))
                  /\ lastUpdate' = now
             ELSE UNCHANGED <<events, lastUpdate>>
  /\ UNCHANGED <<flowAlive, now>>
  /\ UNCHANGED <<sinkVars, probeVars, dummyVars>>

PacketOrig == Packet("orig")

PacketRet == Packet("ret")

\* a probe that reports on a timer, when the cooldown expires
ElapseAndReport ==
  /\ now + (cd \div 2) <= MaxTime
  /\ now' = now + (cd \div 2)
  /\ IF flowAlive /\ now' - lastUpdate >= cd
       THEN /\ events' = Append(events, [kind |-> "Update",
                                         PacketsOrig |-> pktsOrig,
                                         PacketsRet |-> pktsRet])
            /\ lastUpdate' = now'
       ELSE UNCHANGED <<events, lastUpdate>>
  /\ UNCHANGED <<flowAlive, pktsOrig, pktsRet>>
  /\ UNCHANGED <<sinkVars, probeVars, dummyVars>>

\* time passes without a packet of the flow
Elapse ==
  /\ now + (cd \div 2) <= MaxTime
  /\ now' = now + (cd \div 2)
  /\ UNCHANGED <<flowAlive, pktsOrig, pktsRet, lastUpdate, events>>
  /\ UNCHANGED <<sinkVars, probeVars, dummyVars>>

\* a teardown that is reported only when the flow's cooldown has expired
DestroyAfterCooldown(evs, orig, ret, elapsed) ==
  IF elapsed >= cd THEN Append(evs, AcctEvent("Destroy", orig, ret)) ELSE evs

\* the events after the flow was torn down
DestroyEvents(evs, orig, ret, elapsed) ==
  Append(evs, AcctEvent("Destroy", orig, ret))

\* the flow is torn down: its final counters are reported
FlowDestroy ==
  /\ flowAlive
  /\ flowAlive' = FALSE
  /\ events' = DestroyEvents(events, pktsOrig, pktsRet, now - lastUpdate)
  /\ UNCHANGED <<pktsOrig, pktsRet, now, lastUpdate>>
  /\ UNCHANGED <<sinkVars, probeVars, dummyVars>>

FlowNext ==
  \/ PacketOrig
  \/ PacketRet
  \/ Elapse
  \/ FlowDestroy

\* ------------------------------------------------------------------------
\* Probe: lifecycle, consumer registry and fan-out
\* ------------------------------------------------------------------------
\* the result of an API call on consumer c
Call(op, c, err) == [op |-> op, c |-> c, err |-> err]

ProbeInit ==
  /\ probeState = "stopped"
  /\ registry = {}
  /\ consumerMu = "free"
  /\ chan = [c \in Consumers |-> <<>>]
  /\ closed = [c \in Consumers |-> FALSE]
  /\ lost = [c \in Consumers |-> 0]
  /\ kernelBuf = {}
  /\ emitted = 0
  /\ payload = <<>>
  /\ rawEvents = <<>>
  /\ produced = 0
  /\ fanPc = "idle"
  /\ fanEv = 0
  /\ fanTodo = {}
  /\ lastCall = Call("none", "", "")
  /\ snapCount = 0
  /\ regAt = [c \in Consumers |-> 0]
  /\ recvd = [c \in Consumers |-> <<>>]

\* acctProbe.Start(): stopped -> running, the fan-out loop is spawned.
\* TestMain starts the probe once; a probe that ran is not started again.
Start ==
  /\ probeState = "stopped"
  /\ fanPc = "idle"
  /\ probeState' = "running"
  /\ fanPc' = "recv"
  /\ lastCall' = Call("start", "", "ok")
  /\ UNCHANGED <<registry, consumerMu, chan, closed, lost, kernelBuf,
                 emitted, payload, rawEvents, produced, fanEv, fanTodo,
                 snapCount, regAt, recvd>>
  /\ UNCHANGED <<sinkVars, flowVars, dummyVars>>

\* a channel that starts with the event fanned out last
ReplayedChan == IF snapCount > 0 THEN <<snapCount>> ELSE <<>>

\* the channel a test's consumer is created with: make(chan AcctEvent, n)
NewConsumerChan == <<>>

\* a registration that does not look for the name in the registry
RegisterOverwrite(c) ==
  /\ consumerMu = "free"
  /\ registry' = registry \cup {c}
  /\ chan' = [chan EXCEPT ![c] = NewConsumerChan]
  /\ closed' = [closed EXCEPT ![c] = FALSE]
  /\ lost' = [lost EXCEPT ![c] = 0]
  /\ regAt' = [regAt EXCEPT ![c] = snapCount]
  /\ recvd' = [recvd EXCEPT ![c] = <<>>]
  /\ lastCall' = Call("register", c, "ok")
  /\ UNCHANGED <<probeState, consumerMu, kernelBuf, emitted, payload,
                 rawEvents, produced, fanPc, fanEv, fanTodo, snapCount>>
  /\ UNCHANGED <<sinkVars, flowVars, dummyVars>>

\* newConsumer / RegisterConsumer, under the registry lock: a consumer
\* whose name is not in the registry is added with its own new channel;
\* a name already registered is refused and nothing changes
RegisterConsumer(c) ==
  /\ consumerMu = "free"
  /\ IF c \in registry
       THEN /\ lastCall' = Call("register", c, "duplicate")
            /\ UNCHANGED <<registry, chan, closed, lost, regAt, recvd>>
       ELSE /\ registry' = registry \cup {c}
            /\ chan' = [chan EXCEPT ![c] = NewConsumerChan]
            /\ closed' = [closed EXCEPT ![c] = FALSE]
            /\ lost' = [lost EXCEPT ![c] = 0]
            /\ regAt' = [regAt EXCEPT ![c] = snapCount]
            /\ recvd' = [recvd EXCEPT ![c] = <<>>]
            /\ lastCall' = Call("register", c, "ok")
  /\ UNCHANGED <<probeState, consumerMu, kernelBuf, emitted, payload,
                 rawEvents, produced, fanPc, fanEv, fanTodo, snapCount>>
  /\ UNCHANGED <<sinkVars, flowVars, dummyVars>>

\* acctProbe.RemoveConsumer(ac), under the registry lock: a registered
\* consumer is taken out (its channel stays its owner's); an absent one
\* is reported as not found and nothing changes
RemoveConsumer(c) ==
  /\ consumerMu = "free"
  /\ IF c \in registry
       THEN /\ registry' = registry \ {c}
            /\ lastCall' = Call("remove", c, "ok")
       ELSE /\ lastCall' = Call("remove", c, "notfound")
            /\ UNCHANGED registry
  /\ UNCHANGED <<probeState, consumerMu, chan, closed, lost, kernelBuf,
                 emitted, payload, rawEvents, produced, fanPc, fanEv,
                 fanTodo, snapCount, regAt, recvd>>
  /\ UNCHANGED <<sinkVars, flowVars, dummyVars>>

\* the kernel program emits the flow's next event
KernelEmit ==
  /\ probeState = "running"
  /\ emitted < MaxEvents
  /\ Cardinality(kernelBuf) < MaxInFlight
  /\ emitted' = emitted + 1
  /\ kernelBuf' = kernelBuf \cup {emitted + 1}
  /\ UNCHANGED <<probeState, registry, consumerMu, chan, closed, lost,
                 payload, rawEvents, produced, fanPc, fanEv, fanTodo,
                 lastCall, snapCount, regAt, recvd>>
  /\ UNCHANGED <<sinkVars, flowVars, dummyVars>>

\* the events userspace may read next: events emitted closely together
\* are sometimes delivered to userspace out of order
Deliverable == kernelBuf

\* the producer reads an event from the kernel, decodes it and queues it
\* for the fan-out loop
Produce ==
  /\ probeState = "running"
  /\ \E e \in Deliverable :
       /\ kernelBuf' = kernelBuf \ {e}
       /\ payload' = Append(payload, e)
  /\ produced' = produced + 1
  /\ rawEvents' = Append(rawEvents, produced + 1)
  /\ UNCHANGED <<probeState, registry, consumerMu, chan, closed, lost,
                 emitted, fanPc, fanEv, fanTodo, lastCall, snapCount, regAt,
                 recvd>>
  /\ UNCHANGED <<sinkVars, flowVars, dummyVars>>

\* fan-out loop: read the next event from the producer
FanoutRecv ==
  /\ fanPc = "recv"
  /\ rawEvents # <<>>
  /\ fanEv' = Head(rawEvents)
  /\ rawEvents' = Tail(rawEvents)
  /\ fanPc' = "lock"
  /\ UNCHANGED <<probeState, registry, consumerMu, chan, closed, lost,
                 kernelBuf, emitted, payload, produced, fanTodo, lastCall,
                 snapCount, regAt, recvd>>
  /\ UNCHANGED <<sinkVars, flowVars, dummyVars>>

\* a fan-out that copies the registry and lets go of the lock before it
\* sends
FanoutSnapshot ==
  /\ fanPc = "lock"
  /\ consumerMu = "free"
  /\ fanTodo' = registry
  /\ snapCount' = snapCount + 1
  /\ fanPc' = "send"
  /\ UNCHANGED <<probeState, registry, consumerMu, chan, closed, lost,
                 kernelBuf, emitted, payload, rawEvents, produced, fanEv,
                 lastCall, regAt, recvd>>
  /\ UNCHANGED <<sinkVars, flowVars, dummyVars>>

\* fan-out loop: take the read lock over the consumer registry
FanoutRLock ==
  /\ fanPc = "lock"
  /\ consumerMu = "free"
  /\ consumerMu' = "rlock"
  /\ fanTodo' = registry
  /\ snapCount' = snapCount + 1
  /\ fanPc' = "send"
  /\ UNCHANGED <<probeState, registry, chan, closed, lost, kernelBuf,
                 emitted, payload, rawEvents, produced, fanEv, lastCall,
                 regAt, recvd>>
  /\ UNCHANGED <<sinkVars, flowVars, dummyVars>>

\* a consumer's bounded channel has no room
ChanFull(ch) == Len(ch) >= ConsumerChanCap

\* a fan-out that waits for room in the consumer's channel
SendBlocking(c) ==
  /\ ~ChanFull(chan[c])
  /\ chan' = [chan EXCEPT ![c] = Append(@, fanEv)]
  /\ UNCHANGED lost

\* the send to one consumer: the event is queued, or, the channel being
\* full, dropped for this consumer and counted
SendOrDrop(c) ==
  IF ChanFull(chan[c])
    THEN /\ lost' = [lost EXCEPT ![c] = @ + 1]
         /\ UNCHANGED chan
    ELSE /\ chan' = [chan EXCEPT ![c] = Append(@, fanEv)]
         /\ UNCHANGED lost

\* fan-out loop: send the event to one registered consumer
FanoutSend(c) ==
  /\ fanPc = "send"
  /\ c \in fanTodo
  /\ SendOrDrop(c)
  /\ fanTodo' = fanTodo \ {c}
  /\ UNCHANGED <<probeState, registry, consumerMu, closed, kernelBuf,
                 emitted, payload, rawEvents, produced, fanPc, fanEv,
                 lastCall, snapCount, regAt, recvd>>
  /\ UNCHANGED <<sinkVars, flowVars, dummyVars>>

\* fan-out loop: every registered consumer was served, the read lock is
\* released
FanoutDone ==
  /\ fanPc = "send"
  /\ fanTodo = {}
  /\ consumerMu' = "free"
  /\ fanPc' = "recv"
  /\ UNCHANGED <<probeState, registry, chan, closed, lost, kernelBuf,
                 emitted, payload, rawEvents, produced, fanEv, fanTodo,
                 lastCall, snapCount, regAt, recvd>>
  /\ UNCHANGED <<sinkVars, flowVars, dummyVars>>

\* fan-out loop: told to stop, it returns between two events
FanoutExit ==
  /\ fanPc = "recv"
  /\ probeState = "stopping"
  /\ fanPc' = "exited"
  /\ UNCHANGED <<probeState, registry, consumerMu, chan, closed, lost,
                 kernelBuf, emitted, payload, rawEvents, produced, fanEv,
                 fanTodo, lastCall, snapCount, regAt, recvd>>
  /\ UNCHANGED <<sinkVars, flowVars, dummyVars>>

\* a consumer's reader takes the next event from its channel
ConsumerRead(c) ==
  /\ c \in registry
  /\ chan[c] # <<>>
  /\ recvd' = [recvd EXCEPT ![c] = Append(@, Head(chan[c]))]
  /\ chan' = [chan EXCEPT ![c] = Tail(@)]
  /\ UNCHANGED <<probeState, registry, consumerMu, closed, lost, kernelBuf,
                 emitted, payload, rawEvents, produced, fanPc, fanEv,
                 fanTodo, lastCall, snapCount, regAt>>
  /\ UNCHANGED <<sinkVars, flowVars, dummyVars>>

\* acctProbe.Stop(), first part: running -> stopping, the producer is
\* detached and the fan-out loop is told to stop
StopCall ==
  /\ probeState = "running"
  /\ probeState' = "stopping"
  /\ UNCHANGED <<registry, consumerMu, chan, closed, lost, kernelBuf,
                 emitted, payload, rawEvents, produced, fanPc, fanEv,
                 fanTodo, lastCall, snapCount, regAt, recvd>>
  /\ UNCHANGED <<sinkVars, flowVars, dummyVars>>

\* a Stop() that closes the channels without waiting for the loop
CloseAtOnce == TRUE

\* Stop() may close the channels once the fan-out loop has returned
MayClose == fanPc = "exited"

\* acctProbe.Stop(), second part: every registered consumer's channel is
\* closed, stopping -> stopped, and Stop() returns
StopClose ==
  /\ probeState = "stopping"
  /\ MayClose
  /\ consumerMu = "free"
  /\ closed' = [c \in Consumers |-> closed[c] \/ c \in registry]
  /\ probeState' = "stopped"
  /\ lastCall' = Call("stop", "", "ok")
  /\ UNCHANGED <<registry, consumerMu, chan, lost, kernelBuf, emitted,
                 payload, rawEvents, produced, fanPc, fanEv, fanTodo,
                 snapCount, regAt, recvd>>
  /\ UNCHANGED <<sinkVars, flowVars, dummyVars>>

\* acctProbe.Stop() on a stopped probe: nothing to do
StopAgain ==
  /\ probeState = "stopped"
  /\ lastCall' = Call("stop", "", "noop")
  /\ UNCHANGED <<probeState, registry, consumerMu, chan, closed, lost,
                 kernelBuf, emitted, payload, rawEvents, produced, fanPc,
                 fanEv, fanTodo, snapCount, regAt, recvd>>
  /\ UNCHANGED <<sinkVars, flowVars, dummyVars>>

ProbeNext ==
  \/ Start
  \/ \E c \in Consumers : RegisterConsumer(c)
  \/ \E c \in Consumers : RemoveConsumer(c)
  \/ KernelEmit
  \/ Produce
  \/ FanoutRecv
  \/ FanoutRLock
  \/ \E c \in Consumers : FanoutSend(c)
  \/ FanoutDone
  \/ FanoutExit
  \/ \E c \in Consumers : ConsumerRead(c)
  \/ StopCall
  \/ StopClose
  \/ StopAgain

\* ------------------------------------------------------------------------
\* Dummy sink
\* ------------------------------------------------------------------------
\* New(): the zero Dummy
DummyNew ==
  /\ dInit = FALSE
  /\ dConfig = ""
  /\ dStats = [eventsPushed |-> 0, batchesSent |-> 0, batchesDropped |-> 0]
  /\ dPushes = 0
  /\ dRead = <<>>

\* Dummy.Init(sc)
DummyInit(name) ==
  /\ dConfig' = name
  /\ dInit' = TRUE
  /\ UNCHANGED <<dStats, dPushes, dRead>>
  /\ UNCHANGED <<sinkVars, flowVars, probeVars>>

\* a Push that counts the event only
PushCountsEventOnly(st) == IncrEventsPushed(st)

\* the counters after Dummy.Push
DummyPushStats(st) == IncrBatchDropped(IncrEventsPushed(st))

\* Dummy.Push(e)
DummyPush ==
  /\ dPushes < MaxDummyPushes
  /\ dPushes' = dPushes + 1
  /\ dStats' = DummyPushStats(dStats)
  /\ UNCHANGED <<dInit, dConfig, dRead>>
  /\ UNCHANGED <<sinkVars, flowVars, probeVars>>

\* Dummy.Stats(): a copy of the counters
DummyStats ==
  /\ dRead' = <<dStats>>
  /\ UNCHANGED <<dInit, dConfig, dStats, dPushes>>
  /\ UNCHANGED <<sinkVars, flowVars, probeVars>>

DummyNext ==
  \/ \E name \in {"dummy", "bench"} : DummyInit(name)
  \/ DummyPush
  \/ DummyStats

Init == SinkInit /\ FlowInit /\ ProbeInit /\ DummyNew

\* the whole pipeline: probe, sampling and sink side by side
Next == SinkNext \/ FlowNext \/ ProbeNext \/ DummyNext

Spec == Init /\ [][Next]_vars

\* the Dummy sink under any sequence of calls
DummySpec == Init /\ [][DummyNext]_vars

\* the probe's registry and fan-out with its consumers
ProbeSpec == Init /\ [][ProbeNext]_vars

\* The scheduling the Go runtime gives the probe's goroutines: the fan-out
\* loop is runnable whenever it is not waiting for an event, its select
\* takes the stop signal when that is ready, and a Stop() that was called
\* goes on. Nothing is assumed about the consumers or the callers of the
\* registry.
ProbeFairSpec ==
  /\ ProbeSpec
  /\ WF_vars(FanoutRLock)
  /\ WF_vars(\E c \in Consumers : FanoutSend(c))
  /\ WF_vars(FanoutDone)
  /\ SF_vars(FanoutExit)
  /\ WF_vars(StopClose)

\* one flow through the probe's sampling
FlowSpec == Init /\ [][FlowNext]_vars

\* the sink with its workers; the backend may fail and may be slow
SinkSpec == Init /\ [][SinkNext]_vars

\* The scheduling the Go runtime gives the sink's goroutines: the ticker
\* keeps firing, a runnable goroutine runs, a mutex that becomes free again
\* and again is eventually acquired.  The backend is an external system:
\* nothing makes a Write return.
SinkFairSpec ==
  /\ Init
  /\ [][SinkNext]_vars
  /\ WF_vars(TickFire)
  /\ SF_vars(TickLock)
  /\ WF_vars(TickCheck)
  /\ WF_vars(TickSend)
  /\ WF_vars(TickNewBatch)
  /\ WF_vars(TickUnlock)
  /\ SF_vars(PushLock)
  /\ WF_vars(PushAppend)
  /\ WF_vars(SendRecv)

\* the same scheduling with a backend whose every Write returns
SinkLiveSpec == SinkFairSpec /\ WF_vars(WriteFail \/ WriteOk)

\* ------------------------------------------------------------------------
\* Properties of the batching sink
\* ------------------------------------------------------------------------
\* the batches of the completed Writes
WrittenBatches == {written[i].b : i \in 1..Len(written)}

\* a step in which a Write returns with an error
WriteFailsStep ==
  /\ Len(written') = Len(written) + 1
  /\ ~Last(written').ok

\* C1 - Drop accounting: when the Write of a batch fails, batchesDropped
\* grows by exactly 1, batchesSent is unchanged, and the batch is gone: it is
\* not put back on the send channel, and no batch is ever written twice or
\* handed off again after it was written.
C1_DropAccounting ==
  [][ /\ WriteFailsStep =>
           /\ stats'.batchesDropped = stats.batchesDropped + 1
           /\ stats'.batchesSent = stats.batchesSent
           /\ stats'.eventsPushed = stats.eventsPushed
           /\ sendChan' = sendChan
           /\ sendB \notin Range(sendChan')
           /\ batch' = batch
      /\ Len(written') > Len(written) =>
           Last(written').b \notin WrittenBatches
      /\ Len(handed') > Len(handed) =>
           Last(handed') \notin WrittenBatches \cup {sendB}
    ]_vars

\* C1 witness: a Write failed, was counted as one drop, and the sink went on
\* to hand off and write a later batch
C1_Witness ==
  /\ Len(written) >= 2
  /\ ~written[1].ok
  /\ written[2].ok
  /\ stats.batchesDropped = 1
  /\ stats.batchesSent = 1

\* C2 - Empty-flush suppression: a tick that finds the active batch empty
\* goes straight to the unlock: it hands nothing to the send channel and
\* changes no counter; every batch handed off, queued or written is
\* non-empty, and a batch is handed off only by a tick that found points.
C2_EmptyFlushSuppressed ==
  [][ /\ (tickPc = "check" /\ Len(batch) = 0 /\ tickPc' # tickPc) =>
           /\ tickPc' = "unlock"
           /\ UNCHANGED <<sendChan, handed, written, stats, batch>>
      /\ (tickPc = "unlock" /\ tickLen = 0 /\ tickPc' # tickPc) =>
           UNCHANGED <<sendChan, handed, written, stats, batch>>
      /\ Len(handed') > Len(handed) =>
           /\ Len(Last(handed')) > 0
           /\ tickPc = "send"
           /\ tickLen > 0
      /\ Len(sendChan') > Len(sendChan) => Len(Last(sendChan')) > 0
      /\ Len(written') > Len(written) => Len(Last(written').b) > 0
    ]_vars

\* C2 witness: after an earlier flush was delivered, a tick found the
\* batch empty and is about to unlock, having handed off nothing
C2_Witness ==
  /\ tickPc = "unlock"
  /\ tickLen = 0
  /\ batch = <<>>
  /\ Len(handed) = 1
  /\ Len(written) = 1
  /\ sendChan = <<>>

\* the batches whose Write has begun, in the order the Writes began
WriteOrder ==
  [i \in 1..Len(written) |-> written[i].b]
    \o (IF sendPc = "write" THEN <<sendB>> ELSE <<>>)

\* C3 - Batch FIFO order: the batches written (or being written), followed
\* by those waiting in the send channel, are exactly the batches the tick
\* worker handed off, in the order it handed them off.
C3_BatchFifo == WriteOrder \o sendChan = handed

\* C3 witness: two batches waited in the channel together and were then
\* written, the first of them failing
C3_Witness ==
  /\ Len(written) >= 3
  /\ ~written[2].ok
  /\ written[3].ok
  /\ Len(handed) >= 4

\* C4 - The batch lock is never held across the backend write: no worker
\* waits, lock held, to hand a batch to a send worker that is busy writing.
C4_LockNotHeldAcrossWrite ==
  ~ /\ batchMu = "tick"
    /\ tickPc = "send"
    /\ Len(sendChan) = SendChanCap
    /\ sendPc = "write"

\* C5 - Push is non-blocking whatever the backend does: a Push waiting for
\* the batch lock eventually gets it and returns.
C5_PushReturns == (pushPc = "lock") ~> (pushPc = "idle")

\* C17 - A delivery failure does not stop the pipeline: the send worker is
\* always at its receive or in a Write; provided every Write returns, a
\* batch handed off after a failed Write is written in its turn; and a
\* Write that succeeds after a failure adds one to batchesSent.
C17_FailureDoesNotStop ==
  /\ [](sendPc \in {"recv", "write"})
  /\ \A n \in 1..MaxPoints :
       (/\ Len(handed) >= n
        /\ \E i \in 1..Len(written) : i < n /\ ~written[i].ok)
         ~> (Len(written) >= n /\ written[n].b = handed[n])
  /\ [][ (/\ Len(written') > Len(written)
          /\ Last(written').ok
          /\ \E i \in 1..Len(written) : ~written[i].ok) =>
           /\ stats'.batchesSent = stats.batchesSent + 1
           /\ stats'.batchesDropped = stats.batchesDropped
       ]_vars

\* C17 witness: the first Write failed, and the two batches handed off
\* after it were written, the last one with success
C17_Witness ==
  /\ Len(written) = 3
  /\ ~written[1].ok
  /\ ~written[2].ok
  /\ written[3].ok
  /\ stats.batchesSent = 1
  /\ stats.batchesDropped = 2

\* the number of completed Writes with the given outcome
WritesWith(ok) == Cardinality({i \in 1..Len(written) : written[i].ok = ok})

\* the counters account for the completed Writes, each batch once
Conservation ==
  /\ stats.batchesSent + stats.batchesDropped = Len(written)
  /\ stats.batchesSent = WritesWith(TRUE)
  /\ stats.batchesDropped = WritesWith(FALSE)
  /\ Len(written) <= Len(handed)
  /\ \A i \in 1..Len(written) : written[i].b = handed[i]
  /\ \A i, j \in 1..Len(handed) : handed[i] = handed[j] => i = j

\* C19 - Batch accounting conservation: batchesSent + batchesDropped is
\* the number of completed Writes and never exceeds the number of batches
\* handed off; each handed-off batch is written at most once and counted in
\* exactly one counter; the counters never decrease; and, provided every
\* Write returns, each handed-off batch is eventually counted.
C19_Conservation ==
  /\ []Conservation
  /\ [][ /\ stats'.batchesSent >= stats.batchesSent
         /\ stats'.batchesDropped >= stats.batchesDropped
         /\ stats'.batchesSent + stats'.batchesDropped
              <= stats.batchesSent + stats.batchesDropped + 1
       ]_vars
  /\ \A n \in 1..MaxPoints :
       (Len(handed) >= n)
         ~> (stats.batchesSent + stats.batchesDropped >= n)

\* C19 witness: four batches handed off, three Writes completed (two sent,
\* one dropped), the fourth still in progress
C19_Witness ==
  /\ Len(handed) = 4
  /\ Len(written) = 3
  /\ sendPc = "write"
  /\ stats.batchesSent = 2
  /\ stats.batchesDropped = 1

\* the points of a sequence of batches, in order
RECURSIVE Flatten(_)
Flatten(bs) == IF bs = <<>> THEN <<>> ELSE Head(bs) \o Flatten(Tail(bs))

\* the points of the active batch that no hand-off has taken
ActivePoints == IF tickPc = "newbatch" THEN <<>> ELSE batch

\* C20 - The batch swap neither loses nor duplicates points: the batches
\* handed off so far, followed by the active batch, hold every point Push
\* has appended exactly once, in the order of the appends.
C20_SwapExact ==
  Flatten(handed) \o ActivePoints = [i \in 1..stats.eventsPushed |-> i]

\* C20 witness: pushes and ticks interleaved; a Push waits for the lock
\* the tick worker holds between the hand-off and the new batch
C20_Witness ==
  /\ tickPc = "newbatch"
  /\ pushPc = "lock"
  /\ Len(handed) = 2
  /\ Len(handed[1]) = 2
  /\ stats.eventsPushed = 3

\* ------------------------------------------------------------------------
\* Properties of the probe's sampling
\* ------------------------------------------------------------------------
\* cumulative packet count of an event, both directions together
Total(e) == e.PacketsOrig + e.PacketsRet

\* the flow's cumulative packet count
FlowTotal == pktsOrig + pktsRet

\* the cumulative packet counts of the Updates emitted so far, in order
UpdateTotals ==
  LET ups == SelectSeq(events, LAMBDA e : e.kind = "Update")
  IN [i \in 1..Len(ups) |-> Total(ups[i])]

\* a step in which a packet of the flow passes the probe
PacketStep == pktsOrig' + pktsRet' = pktsOrig + pktsRet + 1

\* a step in which the probe emits an Update
UpdateStep ==
  /\ Len(events') = Len(events) + 1
  /\ Last(events').kind = "Update"

\* C6 (as the spec states it) - a packet that arrives before the flow's
\* cooldown expires is reported exactly when it is packet 1, 2, 4, 8, 16 or
\* 32 of the flow.
C6_SpecBurst ==
  [][ (PacketStep /\ now - lastUpdate < cd) =>
        (UpdateStep <=> (pktsOrig' + pktsRet') \in {1, 2, 4, 8, 16, 32})
    ]_vars

\* C6 (amended) - a packet that arrives before the flow's cooldown expires
\* is reported exactly when it is packet 1, 2, 8 or 32 of the flow.
C6_Burst ==
  [][ (PacketStep /\ now - lastUpdate < cd) =>
        /\ UpdateStep <=> (pktsOrig' + pktsRet') \in {1, 2, 8, 32}
        /\ UpdateStep => Total(Last(events')) = pktsOrig' + pktsRet'
    ]_vars

\* C6 witness: sixteen packets within the cooldown; packets 4 and 16 went
\* by without an Update
C6_Witness ==
  /\ FlowTotal = 16
  /\ now < cd
  /\ UpdateTotals = <<1, 2, 8>>

\* C7 - Startup burst as the tests state it: while all packets of a new flow
\* arrive within the cooldown interval, the Updates emitted are those for
\* packets 1, 2, 8 and 32, in this order, each once and no other: four
\* Updates for the first 32 packets and none after them.
C7_StartupBurst ==
  now < cd =>
    UpdateTotals = SelectSeq(<<1, 2, 8, 32>>, LAMBDA n : n <= FlowTotal)

\* C7 witness: 34 packets within the cooldown, exactly the four Updates
C7_Witness ==
  /\ FlowTotal = 34
  /\ now < cd
  /\ Len(events) = 4
  /\ {Total(events[1]), Total(events[2])} = {1, 2}
  /\ Total(events[3]) = 8
  /\ Total(events[4]) = 32

\* C8 - Cooldown gating: past the startup burst an Update is emitted no
\* sooner than the cooldown interval after the flow's previous Update, and
\* a packet that arrives when the interval has elapsed produces exactly one
\* Update, carrying the flow's current cumulative counters.
C8_CooldownGating ==
  [][ /\ (UpdateStep /\ pktsOrig' + pktsRet' > 32) =>
           now - lastUpdate >= cd
      /\ (PacketStep /\ FlowTotal >= 32 /\ now - lastUpdate >= cd) =>
           /\ UpdateStep
           /\ Last(events').PacketsOrig = pktsOrig'
           /\ Last(events').PacketsRet = pktsRet'
           /\ lastUpdate' = now
    ]_vars

\* C8 witness: the burst, then packet 33 one cooldown later and packet 34 a
\* further cooldown later, each reported
C8_Witness ==
  /\ UpdateTotals = <<1, 2, 8, 32, 33, 34>>
  /\ now = 2 * cd
  /\ lastUpdate = 2 * cd

\* C18 - Update emission is packet-driven: every Update is emitted in a
\* step in which a packet of the flow passes the probe, and carries the
\* counters that packet produced; while time passes without a packet, no
\* event is emitted, however long the flow's cooldown has expired.
C18_PacketDriven ==
  [][ /\ UpdateStep =>
           /\ PacketStep
           /\ now' = now
           /\ Last(events').PacketsOrig = pktsOrig'
           /\ Last(events').PacketsRet = pktsRet'
      /\ now' # now => UNCHANGED <<events, lastUpdate, pktsOrig, pktsRet>>
    ]_vars

\* C18 witness: two cooldown intervals have passed since the Update for
\* packet 32 and no further Update was emitted
C18_Witness ==
  /\ flowAlive
  /\ FlowTotal = 32
  /\ UpdateTotals = <<1, 2, 8, 32>>
  /\ lastUpdate = 0
  /\ now = 2 * cd

\* C9 - Destroy finality: a flow has a Destroy event exactly when it was
\* torn down, and then exactly one; it is the flow's last event, all events
\* before it are Updates, and each of its counters is at least the
\* corresponding counter of every Update before it.
C9_DestroyFinality ==
  LET destroys == {i \in 1..Len(events) : events[i].kind = "Destroy"}
  IN /\ flowAlive => destroys = {}
     /\ ~flowAlive =>
          /\ destroys = {Len(events)}
          /\ Last(events).PacketsOrig = pktsOrig
          /\ Last(events).PacketsRet = pktsRet
          /\ \A i \in 1..(Len(events) - 1) :
               /\ events[i].kind = "Update"
               /\ events[i].PacketsOrig <= Last(events).PacketsOrig
               /\ events[i].PacketsRet <= Last(events).PacketsRet

\* C9 witness: a flow torn down inside its cooldown, with packets that no
\* Update had reported
C9_Witness ==
  /\ ~flowAlive
  /\ now - lastUpdate < cd
  /\ Len(events) >= 6
  /\ events[Len(events) - 1].kind = "Update"
  /\ Total(events[Len(events) - 1]) = 33
  /\ Total(Last(events)) = 34

\* ------------------------------------------------------------------------
\* Properties of the probe's fan-out
\* ------------------------------------------------------------------------
\* the events that reached consumer c: those read, then those queued
Delivered(c) == recvd[c] \o chan[c]

\* the events the fan-out loop has offered to c since c registered
Offered(c) ==
  snapCount - regAt[c] - (IF fanPc = "send" /\ c \in fanTodo THEN 1 ELSE 0)

\* each registered consumer's stream depends on its own channel alone
FanoutIsolated ==
  \A c \in registry :
    LET d == Delivered(c)
    IN /\ Len(chan[c]) <= ConsumerChanCap
       /\ \A i \in 1..Len(d) : regAt[c] < d[i] /\ d[i] <= snapCount
       /\ \A i \in 1..(Len(d) - 1) : d[i] < d[i + 1]
       /\ Len(d) + lost[c] = Offered(c)
       /\ lost[c] = 0 => d = [i \in 1..Offered(c) |-> regAt[c] + i]

\* the fan-out loop can always go on: it waits for no consumer
FanoutNeverBlocks ==
  /\ (fanPc = "send" /\ fanTodo = {}) => ENABLED FanoutDone
  /\ fanPc = "send" => \A c \in fanTodo : ENABLED FanoutSend(c)

\* an event is dropped only for the consumer whose channel is full, and
\* that consumer's counter grows by one
DropStep ==
  \A c \in Consumers :
    (c \in registry /\ c \in registry' /\ lost'[c] # lost[c]) =>
      /\ lost'[c] = lost[c] + 1
      /\ Len(chan[c]) = ConsumerChanCap
      /\ chan' = chan
      /\ \A o \in Consumers \ {c} : lost'[o] = lost[o]

\* C10 - Fan-out isolation: whatever the other consumers do (one of them
\* may never drain its channel), a registered consumer has received, in
\* order, every event fanned out since its registration except those
\* dropped because its own channel was full, each such drop adding one to
\* its own drop counter; and the fan-out loop never waits for a consumer.
C10_FanoutIsolation ==
  /\ [](FanoutIsolated /\ FanoutNeverBlocks)
  /\ [][DropStep]_vars

\* C10 witness: one consumer never read, its channel is full and it lost
\* events, while another consumer, registered from the start, read every
\* event
C10_Witness ==
  \E c \in registry, o \in registry :
    /\ c # o
    /\ recvd[c] = <<>>
    /\ Len(chan[c]) = ConsumerChanCap
    /\ lost[c] = MaxEvents - ConsumerChanCap
    /\ lost[o] = 0
    /\ recvd[o] = [i \in 1..MaxEvents |-> i]

\* every event c received was fanned out after c registered, and, while c
\* lost nothing, c received every event fanned out since
NoReplay ==
  \A c \in registry :
    LET d == Delivered(c)
    IN /\ \A i \in 1..Len(d) : d[i] > regAt[c]
       /\ lost[c] = 0 =>
            \A e \in (regAt[c] + 1)..(regAt[c] + Offered(c)) :
              \E i \in 1..Len(d) : d[i] = e

\* a registration hands the probe a channel without events, between two
\* fan-outs
RegisterStartsEmpty ==
  \A c \in Consumers :
    (c \notin registry /\ c \in registry') =>
      /\ Delivered(c)' = <<>>
      /\ regAt'[c] = snapCount
      /\ fanPc # "send"

\* C11 - No replay: a consumer registered after event E1 was fanned out
\* and before event E2 is produced receives E2 and every later event
\* (while it stays registered and its channel is not full), and never
\* receives E1 or an earlier event.
C11_NoReplay ==
  /\ []NoReplay
  /\ [][RegisterStartsEmpty]_vars

\* C11 witness: a consumer registered after event 1 was fanned out to
\* another consumer, and has received events 2 and 3 and nothing else
C11_Witness ==
  \E c \in registry, o \in registry :
    /\ regAt[o] = 0
    /\ Len(Delivered(o)) >= 1
    /\ Delivered(o)[1] = 1
    /\ regAt[c] = 1
    /\ Delivered(c) = <<2, 3>>

\* a RegisterConsumer / RemoveConsumer call returns in this step
Returns(op) == lastCall' # lastCall /\ lastCall'.op = op

\* the results of the registry's calls and their effect on the registry
RegistryCalls ==
  /\ Returns("register") =>
       IF lastCall'.c \in registry
         THEN /\ lastCall'.err = "duplicate"
              /\ UNCHANGED <<registry, chan, closed, lost, recvd, regAt>>
         ELSE /\ lastCall'.err = "ok"
              /\ registry' = registry \cup {lastCall'.c}
  /\ Returns("remove") =>
       IF lastCall'.c \in registry
         THEN /\ lastCall'.err = "ok"
              /\ registry' = registry \ {lastCall'.c}
         ELSE /\ lastCall'.err = "notfound"
              /\ UNCHANGED <<registry, chan, closed, lost, recvd, regAt>>
  /\ registry' # registry =>
       /\ lastCall' # lastCall
       /\ lastCall'.op \in {"register", "remove"}
       /\ lastCall'.err = "ok"

\* both calls return, whatever the registry holds, once the lock is free
RegistryCallsReturn ==
  consumerMu = "free" =>
    \A c \in Consumers : ENABLED RegisterConsumer(c) /\ ENABLED RemoveConsumer(c)

\* C12 - Consumer registry errors: RegisterConsumer succeeds for a name
\* not in the registry and fails with a duplicate error for a name already
\* registered; RemoveConsumer succeeds for a registered consumer and fails
\* with a not-found error for an absent one; a failed register or remove
\* leaves the registry unchanged. (The registry is keyed by name, so its
\* names are unique.)
C12_RegistryErrors ==
  /\ []RegistryCallsReturn
  /\ [][RegistryCalls]_vars

\* C12 witness: a consumer that was registered and received an event was
\* removed, and removing it again returned not-found
C12_Witness ==
  \E c \in Consumers :
    /\ c \notin registry
    /\ Delivered(c) # <<>>
    /\ lastCall = Call("remove", c, "notfound")

\* the fan-out loop performs its send to c in this step
SendStep(c) ==
  /\ fanPc = "send"
  /\ c \in fanTodo
  /\ c \notin fanTodo'

\* the steps of a shutdown: no send on a closed channel; a channel is
\* closed by Stop() alone, after the loop returned, and was open before;
\* a probe that was stopped stays stopped; a Stop() on a stopped probe
\* changes nothing
ShutdownStep ==
  /\ \A c \in Consumers : SendStep(c) => ~closed[c]
  /\ \A c \in Consumers :
       (~closed[c] /\ closed'[c]) =>
         /\ probeState = "stopping" /\ probeState' = "stopped"
         /\ fanPc = "exited"
         /\ c \in registry
  /\ (probeState = "stopping" /\ probeState' = "stopped") =>
       /\ \A c \in registry : ~closed[c] /\ closed'[c]
       /\ lastCall' = Call("stop", "", "ok")
  /\ (probeState = "stopped" /\ fanPc = "exited") =>
       probeState' = "stopped" /\ fanPc' = "exited"
  /\ (Returns("stop") /\ lastCall'.err = "noop") =>
       /\ probeState = "stopped"
       /\ UNCHANGED <<probeState, registry, consumerMu, chan, closed, lost,
                      rawEvents, fanPc, fanEv, fanTodo>>

\* Stop() was called and has not returned
Stopping == probeState = "stopping"

\* Stop() has returned: the loop is gone, the channels are closed
Stopped ==
  /\ probeState = "stopped"
  /\ fanPc = "exited"
  /\ \A c \in registry : closed[c]

\* C13 - Shutdown safety: when Stop() is called while the fan-out loop is
\* in the middle of sending to a consumer, no send is ever performed on a
\* closed channel, every registered consumer's channel is eventually
\* closed exactly once, the fan-out loop terminates and Stop() returns; a
\* second Stop() is a no-op.
C13_ShutdownSafety ==
  /\ [][ShutdownStep]_vars
  /\ [](probeState = "stopped" => ENABLED StopAgain)
  /\ Stopping ~> Stopped

\* C13 witness: Stop() was called and the fan-out loop, holding an event,
\* has sent it to one of two registered consumers and not yet to the other
C13_Witness ==
  /\ probeState = "stopping"
  /\ fanPc = "send"
  /\ Cardinality(registry) = 2
  /\ Cardinality(fanTodo) = 1

\* the fan-out loop sends to registered consumers only
SendsToRegistered ==
  /\ \A c \in Consumers : SendStep(c) => c \in registry
  /\ registry' # registry => fanPc # "send"

Seen(c) == [i \in 1..Len(Delivered(c)) |-> payload[Delivered(c)[i]]]

\* C16 - Per-flow ordering: the events of one flow reach each consumer in
\* the order they were produced, so the Update events a consumer sees for
\* a flow are monotonically non-decreasing in cumulative packet count (the
\* Update for packet 1 is never seen after the Update for packet 2).
C16_MonotoneAtConsumer ==
  \A c \in registry :
    \A i \in 1..Len(Seen(c)), j \in 1..Len(Seen(c)) :
      i < j => Seen(c)[i] <= Seen(c)[j]

\* ------------------------------------------------------------------------
\* Properties of the Dummy sink
\* ------------------------------------------------------------------------
\* the counters of a Dummy that was pushed n events
DroppedAll(n) ==
  [eventsPushed |-> n, batchesSent |-> 0, batchesDropped |-> n]

\* C15 - The Dummy sink drops every event: each Push, with or without an
\* Init before it, adds exactly 1 to eventsPushed and to batchesDropped;
\* after any sequence of calls the counters are eventsPushed =
\* batchesDropped = number of Push calls and batchesSent = 0, and that is
\* what Stats() returns.
C15_DummyDropsAll ==
  /\ [](dStats = DroppedAll(dPushes))
  /\ [][ /\ dPushes' # dPushes =>
              /\ dStats'.eventsPushed = dStats.eventsPushed + 1
              /\ dStats'.batchesDropped = dStats.batchesDropped + 1
              /\ dStats'.batchesSent = dStats.batchesSent
              /\ UNCHANGED <<dInit, dConfig>>
         /\ dRead' # dRead => dRead' = <<DroppedAll(dPushes)>>
         /\ dPushes' = dPushes => dStats' = dStats
       ]_vars

\* C15 witness: events pushed before and after Init, then Stats read
C15_Witness ==
  /\ dInit
  /\ dPushes = 3
  /\ dRead = <<DroppedAll(3)>>
  /\ dStats = DroppedAll(3)


====
